---- MODULE Spec2Model ----
(***************************************************************************)
(* Model of agent/function/chain.py: the Chain driver (Chain.start), the   *)
(* debug loop (Chain.gen_task_content), the code-generation session        *)
(* (Chain.handle_streaming) and the persisted plan record                  *)
(* (Chain.update_project_state).                                           *)
(*                                                                         *)
(* Python values are encoded as follows.  A string-valued attribute that   *)
(* may be None holds the string "None" for None.  An optional list or text *)
(* is a sequence of length 0 (None) or 1 (the value).  A text is the       *)
(* sequence of its fragments: "p" is a fragment of prose, "c" a fragment   *)
(* of fenced code.                                                         *)
(***************************************************************************)
EXTENDS Integers, Sequences, FiniteSets, TLC

\* ---------------------------------------------------------------- bounds
MaxTasks == 3      \* longest task list the planner returns
MaxDebug == 2      \* largest Task.debug
MaxTokens == 1     \* longest token stream of one completion
MaxStarts == 2     \* calls of start() on one Chain object

VARIABLES
    persisted,            \* the project's persisted plan record
    plan,                 \* self.plan
    user_requirement,     \* self.user_requirement
    training_entry_file,  \* self.training_entry_file
    chat_history,         \* self.chat_history
    files,                \* content of the entry files, by name
    pc,                   \* position of start()
    idx,                  \* position of `for task in self.plan.tasks` (1-based)
    task_num,             \* local task_num of start()
    task_params,          \* local task_params of start()
    code,                 \* local code of gen_task_content()
    result,               \* local result of start()
    attempt,              \* local attempt of gen_task_content(); -1 before the loop
    failing_runs,         \* how many validation runs of the task in hand exit non-zero
                          \* before one exits 0
    sessions,             \* handle_streaming() calls of the handler in hand
    runs,                 \* run_command() calls of the handler in hand
    repairs,              \* repair prompts appended by the handler in hand
    stream_stop,          \* the last session's stream carried a stop marker
    stream_wrote,         \* the last session's stream had a stop marker with code extracted
    invoked,              \* loop positions whose handler this run has invoked
    run_cursor,           \* plan.current_task when this run of start() began
    req_prompted,         \* this run prompted for the requirement
    after_reject,         \* this Chain was loaded right after a run that ended in a
                          \* rejected plan, and has not reached the planning stage yet
    starts,               \* start() calls on this Chain object
    outcome,              \* how the last run of start() ended
    completed,            \* handlers that reported success, over the plan's life
    done,                 \* list positions whose handler has reported success
    params_from,          \* list position of the ask_choice() that task_params
                          \* comes from; 0 when start() set it to None
    is_running,           \* local is_running of start()
    bodies,               \* bodies of `while is_running` this call has entered
    tasks_confirmed       \* the task list in memory was loaded from the record or
                          \* confirmed at the prompt

vars == <<persisted, plan, user_requirement, training_entry_file, chat_history,
          files, pc, idx, task_num, task_params, code, result, attempt,
          failing_runs, sessions, runs, repairs, stream_stop,
          stream_wrote, invoked, run_cursor, req_prompted, after_reject,
          starts, outcome, completed, done, params_from, is_running, bodies,
          tasks_confirmed>>

\* ---------------------------------------------------------------- values
None == "None"
NoneOpt == <<>>
Some(x) == <<x>>

\* Python truthiness of a string-or-None (and of a confirm answer)
Truthy(s) == s # "None" /\ s # "" /\ s # "False"

\* the entry file: the human keeps the generated name or types one
FileNames == {"main.py"}

TaskTypes == {[kind |-> "multiple_choice", debug |-> 0]}
             \cup {[kind |-> "code_generation", debug |-> d] : d \in 0..MaxDebug}

TaskLists == UNION {[1..n -> TaskTypes] : n \in 0..MaxTasks}

Tokens == [content : {"", "p", "c"}, finish_reason : {"stop", "None"}]

Streams == UNION {[1..n -> Tokens] : n \in 0..MaxTokens}

\* run_command([command]): the exit code of the n-th validation run of a task
\* whose first `failing` runs fail
run_command(n, failing) == IF n <= failing THEN 1 ELSE 0

Msg(r, k, t) == [role |-> r, kind |-> k, task |-> t]

\* the plan of a project that has just been created
FreshPlan == [requirement |-> None, dataset |-> None, training_entry_file |-> None,
              tasks |-> NoneOpt, current_task |-> 0]

LenTasks(p) == IF p.tasks = NoneOpt THEN 0 ELSE Len(p.tasks[1])

\* ------------------------------------------------------------ persistence
\* update_project_plan(project_home, d): the record keeps the fields d omits
update_project_plan(old, d, omitted) ==
    [f \in DOMAIN old |-> IF f \in omitted THEN old[f] ELSE d[f]]

\* self.plan.dict(exclude_none=True): the fields that are None are omitted
ExcludedNone(p) ==
    {f \in {"requirement", "dataset", "training_entry_file"} : p[f] = None}
    \cup (IF p.tasks = NoneOpt THEN {"tasks"} ELSE {})

update_project_state(old, p) == update_project_plan(old, p, ExcludedNone(p))

\* ------------------------------------------------- code-generation session
\* extract_code(text): the code fragments of the text, None when it has none
extract_code(text) ==
    LET c == SelectSeq(text, LAMBDA x : x = "c")
    IN  IF c = <<>> THEN NoneOpt ELSE Some(c)

\* a session that writes the file without waiting for the stop marker
RECURSIVE handle_streaming_nostop(_, _, _)
handle_streaming_nostop(tokens, text, content) ==
    IF tokens = <<>> THEN [text |-> text, file |-> content]
    ELSE LET token == Head(tokens)
             text2 == IF token.content # "" THEN Append(text, token.content) ELSE text
             extracted == extract_code(text2)
             content2 == IF extracted # NoneOpt THEN extracted[1] ELSE content
         IN  handle_streaming_nostop(Tail(tokens), text2, content2)

\* Chain.handle_streaming: the loop over the tokens of one completion
RECURSIVE handle_streaming(_, _, _)
handle_streaming(tokens, text, content) ==
    IF tokens = <<>> THEN [text |-> text, file |-> content]
    ELSE LET token == Head(tokens)
             text2 == IF token.content # "" THEN Append(text, token.content) ELSE text
             extracted == extract_code(text2)
             content2 == IF token.finish_reason = "stop" /\ extracted # NoneOpt
                           THEN extracted[1] ELSE content
         IN  handle_streaming(Tail(tokens), text2, content2)

HasStop(tokens) == \E i \in 1..Len(tokens) : tokens[i].finish_reason = "stop"
StopWithCode(tokens) ==
    \E i \in 1..Len(tokens) : /\ tokens[i].finish_reason = "stop"
                              /\ \E k \in 1..i : tokens[k].content = "c"

\* --------------------------------------------------------------- debug loop
\* `if task.debug:` - the validation run is made only for a truthy budget
DebugEnabled(task) == task.debug # 0

\* a debug loop that makes one attempt too many
AttemptBudget_extra(task) == task.debug + 1

\* `for attempt in range(task.debug)`
AttemptBudget(task) == task.debug

\* an exit-code test with the wrong sense
ExitOk_inverted(ec) == ec # 0

\* `exit_code != 0` / `exit_code == 0`
ExitOk(ec) == ec = 0

\* ------------------------------------------------------------------ driver
\* a cursor set to the position of the loop
NextCursor_position(cur, i) == i

\* `self.plan.current_task += 1`
NextCursor(cur, i) == cur + 1

\* a range test that lets the cursor pass the end of the list
CursorInRange_inclusive(cur, n) == cur <= n

\* `if self.plan.current_task < task_num`
CursorInRange(cur, n) == cur < n

\* a failure test that takes the empty text, not None, for the failure
HandlerFailed_emptytext(r) == r = Some(<<>>)

\* `if result is None`
HandlerFailed(r) == r = NoneOpt

\* a plan written before the human's answer is looked at
ConfirmPlanPersisted_always(old, p, confirm) == update_project_state(old, p)

\* `if confirm_plan: self.update_project_state()`
ConfirmPlanPersisted(old, p, confirm) ==
    IF Truthy(confirm) THEN update_project_state(old, p) ELSE old

\* a planning stage entered whether or not the plan has tasks
NeedsPlanning_always(p) == TRUE

\* `if self.plan.tasks is None`
NeedsPlanning(p) == p.tasks = NoneOpt

\* params that stay with start() after a code_generation task has had them
ParamsAfterCodeGen_kept(params) == params

\* `task_params = None` after gen_task_content() returned its code
ParamsAfterCodeGen(params) == None

\* a flag that the end of the task loop leaves as it was
RunningAfterLoop_kept(running) == running

\* `is_running = False`
RunningAfterLoop(running) == FALSE

CurTask == plan.tasks[1][idx]

Init ==
    /\ persisted = FreshPlan
    /\ plan = FreshPlan
    /\ user_requirement = None
    /\ training_entry_file = None
    /\ chat_history = <<>>
    /\ files = [n \in FileNames |-> <<>>]
    /\ pc = "idle"
    /\ idx = 0
    /\ task_num = 0
    /\ task_params = None
    /\ code = <<>>
    /\ result = NoneOpt
    /\ attempt = -1
    /\ failing_runs = 0
    /\ sessions = 0
    /\ runs = 0
    /\ repairs = 0
    /\ stream_stop = FALSE
    /\ stream_wrote = FALSE
    /\ invoked = <<>>
    /\ run_cursor = 0
    /\ req_prompted = FALSE
    /\ after_reject = FALSE
    /\ starts = 0
    /\ outcome = "none"
    /\ completed = 0
    /\ done = {}
    /\ params_from = 0
    /\ is_running = FALSE
    /\ bodies = 0
    /\ tasks_confirmed = FALSE

\* the locals of start() and of the handler die when start() returns
ResetLocals ==
    /\ idx' = 0
    /\ task_num' = 0
    /\ task_params' = None
    /\ params_from' = 0
    /\ is_running' = FALSE
    /\ bodies' = 0
    /\ code' = <<>>
    /\ result' = NoneOpt
    /\ attempt' = -1
    /\ failing_runs' = 0

ResetHandler ==
    /\ code' = <<>>
    /\ result' = NoneOpt
    /\ attempt' = -1
    /\ failing_runs' = 0
    /\ sessions' = 0
    /\ runs' = 0
    /\ repairs' = 0
    /\ stream_stop' = FALSE
    /\ stream_wrote' = FALSE

HandlerGhost == <<sessions, runs, repairs, stream_stop, stream_wrote>>
HandlerLocals == <<code, result, attempt, failing_runs>>
OuterLoop == <<is_running, bodies>>
LoopLocals == <<idx, task_num, task_params, params_from, OuterLoop>>
RunGhost == <<invoked, run_cursor, req_prompted, after_reject, starts, completed,
              done, tasks_confirmed>>
ChainAttrs == <<user_requirement, training_entry_file, chat_history>>

\* start() returns or raises: back to the caller
Terminate(how) ==
    /\ pc' = "idle"
    /\ outcome' = how
    /\ ResetLocals

\* Chain.__init__: a new Chain object on the plan loaded from the record
NewChain ==
    /\ pc = "idle"
    /\ outcome # "none"
    /\ plan' = persisted
    /\ user_requirement' = persisted.requirement
    /\ training_entry_file' = persisted.training_entry_file
    /\ chat_history' = <<>>
    /\ starts' = 0
    /\ tasks_confirmed' = (persisted.tasks # NoneOpt)
    /\ after_reject' = (outcome = "rejected")
    /\ outcome' = "none"
    /\ invoked' = <<>>
    /\ run_cursor' = persisted.current_task
    /\ req_prompted' = FALSE
    /\ sessions' = 0 /\ runs' = 0 /\ repairs' = 0
    /\ stream_stop' = FALSE /\ stream_wrote' = FALSE
    /\ UNCHANGED <<persisted, files, pc, LoopLocals, HandlerLocals, completed, done>>

\* Chain.start is called
StartCall ==
    /\ pc = "idle"
    /\ starts < MaxStarts
    /\ pc' = "while"
    /\ is_running' = TRUE
    /\ bodies' = 0
    /\ starts' = starts + 1
    /\ outcome' = "running"
    /\ invoked' = <<>>
    /\ run_cursor' = plan.current_task
    /\ req_prompted' = FALSE
    /\ sessions' = 0 /\ runs' = 0 /\ repairs' = 0
    /\ stream_stop' = FALSE /\ stream_wrote' = FALSE
    /\ UNCHANGED <<persisted, plan, ChainAttrs, files, idx, task_num, task_params,
                   params_from, HandlerLocals, after_reject, completed, done,
                   tasks_confirmed>>

\* start(), the test of `while is_running`: another body, or the end of start()
While ==
    /\ pc = "while"
    /\ IF is_running
         THEN /\ pc' = "requirement"
              /\ bodies' = bodies + 1
              /\ UNCHANGED <<outcome, idx, task_num, task_params, params_from,
                             is_running, HandlerLocals>>
         ELSE Terminate("finished")
    /\ UNCHANGED <<persisted, plan, ChainAttrs, files, HandlerGhost, RunGhost>>

\* start(), "project requirement setup"
Requirement ==
    /\ pc = "requirement"
    /\ IF Truthy(plan.requirement)
         THEN UNCHANGED <<plan, user_requirement, req_prompted>>
         ELSE \E answer \in {None, "", "req"} :
                /\ user_requirement' = answer
                /\ plan' = [plan EXCEPT !.requirement = answer]
                /\ req_prompted' = TRUE
    /\ pc' = "entry_file"
    /\ UNCHANGED <<persisted, training_entry_file, chat_history, files, LoopLocals,
                   HandlerLocals, HandlerGhost, invoked, run_cursor, after_reject,
                   starts, tasks_confirmed, outcome, completed, done>>

\* start(), `if self.training_entry_file is None` and `if not self.user_requirement`
EntryFile ==
    /\ pc = "entry_file"
    /\ IF training_entry_file = None /\ Truthy(user_requirement)
         THEN pc' = "gen_file_name" /\ UNCHANGED <<outcome, LoopLocals, HandlerLocals>>
         ELSE IF ~Truthy(user_requirement)
                THEN Terminate("SystemExit")
                ELSE pc' = "planning" /\ UNCHANGED <<outcome, LoopLocals, HandlerLocals>>
    /\ UNCHANGED <<persisted, plan, ChainAttrs, files, HandlerGhost, RunGhost>>

\* gen_file_name(), up to the completion that names the file
GenFileName ==
    /\ pc = "gen_file_name"
    /\ chat_history' = chat_history \o <<Msg("system", "filename", 0),
                                         Msg("user", "requirement", 0)>>
    /\ training_entry_file' = "main.py"
    /\ pc' = "file_confirm"
    /\ UNCHANGED <<persisted, plan, user_requirement, files, LoopLocals, HandlerLocals,
                   HandlerGhost, RunGhost, outcome>>

\* gen_file_name(), the confirmation, and the write of start() that follows it
FileConfirm ==
    /\ pc = "file_confirm"
    /\ \E confirm \in {"True", "False", None}, new_name \in {None, "", "main.py"} :
         LET name == IF ~Truthy(confirm) /\ Truthy(new_name)
                       THEN new_name ELSE training_entry_file
             plan2 == [plan EXCEPT !.training_entry_file = name]
         IN  /\ training_entry_file' = name
             /\ plan' = plan2
             /\ persisted' = update_project_state(persisted, plan2)
    /\ chat_history' = <<>>
    /\ pc' = "planning"
    /\ UNCHANGED <<user_requirement, files, LoopLocals, HandlerLocals, HandlerGhost,
                   RunGhost, outcome>>

\* start(), `if self.plan.tasks is None`: task_selector and model_selector
Planning ==
    /\ pc = "planning"
    /\ pc' = IF NeedsPlanning(plan) THEN "dataset" ELSE "check_done"
    /\ req_prompted' = FALSE
    /\ after_reject' = FALSE
    /\ UNCHANGED <<persisted, plan, ChainAttrs, files, LoopLocals, HandlerLocals,
                   HandlerGhost, invoked, run_cursor, starts, tasks_confirmed, completed, done,
                   outcome>>

\* start(), "project dataset setup"
Dataset ==
    /\ pc = "dataset"
    /\ IF plan.dataset = None
         THEN \E detected \in {"no_data_information_provided", "csv_table_data",
                               "/data/train.csv", None},
                 selected \in {"/data/train.csv", None},
                 path \in {"/data/train.csv", "", None} :
                plan' = [plan EXCEPT !.dataset =
                           IF detected = "no_data_information_provided" THEN selected
                           ELSE IF detected = "csv_table_data" THEN path
                           ELSE detected]
         ELSE UNCHANGED plan
    /\ IF plan'.dataset = None
         THEN Terminate("SystemExit")
         ELSE pc' = "plan_gen" /\ UNCHANGED <<outcome, LoopLocals, HandlerLocals>>
    /\ UNCHANGED <<persisted, ChainAttrs, files, HandlerGhost, RunGhost>>

\* start(), plan_generator and match_plan: the validated tasks of the plan,
\* for a planner that answers with one of `lists`
PlanGenFrom(lists) ==
    /\ pc = "plan_gen"
    /\ \E tasks \in lists : plan' = [plan EXCEPT !.tasks = Some(tasks)]
    /\ pc' = "confirm_plan"
    /\ UNCHANGED <<persisted, ChainAttrs, files, LoopLocals, HandlerLocals,
                   HandlerGhost, RunGhost, outcome>>

PlanGen == PlanGenFrom(TaskLists)

\* start(), "confirm the plan"
ConfirmPlan ==
    /\ pc = "confirm_plan"
    /\ \E confirm_plan \in {"True", "False", None} :
         /\ persisted' = ConfirmPlanPersisted(persisted, plan, confirm_plan)
         /\ tasks_confirmed' = Truthy(confirm_plan)
         /\ IF Truthy(confirm_plan)
              THEN pc' = "check_done" /\ UNCHANGED <<outcome, LoopLocals, HandlerLocals>>
              ELSE Terminate("rejected")
    /\ UNCHANGED <<plan, ChainAttrs, files, HandlerGhost, invoked, run_cursor,
                   req_prompted, after_reject, starts, completed, done>>

\* start(), "check if all tasks are completed"
CheckDone ==
    /\ pc = "check_done"
    /\ IF plan.current_task = LenTasks(plan)
         THEN Terminate("all_completed")
         ELSE /\ pc' = "deps"
              /\ task_params' = None
              /\ params_from' = 0
              /\ task_num' = LenTasks(plan)
              /\ UNCHANGED <<outcome, idx, OuterLoop, HandlerLocals>>
    /\ UNCHANGED <<persisted, plan, ChainAttrs, files, HandlerGhost, RunGhost>>

\* start(), dependency_generator, the installation prompt and run_command
Deps ==
    /\ pc = "deps"
    /\ pc' = "loop"
    /\ idx' = 1
    /\ UNCHANGED <<persisted, plan, ChainAttrs, files, task_num, task_params,
                   params_from, OuterLoop, HandlerLocals, HandlerGhost, RunGhost,
                   outcome>>

\* start(), one turn of `for task in self.plan.tasks` up to the handler's call,
\* or the whole turn when the cursor is past the end; after the last turn,
\* `is_running = False`
Loop ==
    /\ pc = "loop"
    /\ IF idx > Len(plan.tasks[1])
         THEN /\ is_running' = RunningAfterLoop(is_running)
              /\ pc' = "while"
              /\ UNCHANGED <<persisted, outcome, idx, task_num, task_params,
                             params_from, bodies, invoked, HandlerLocals,
                             HandlerGhost>>
         ELSE IF CursorInRange(plan.current_task, task_num)
                THEN /\ invoked' = Append(invoked, idx)
                     /\ pc' = IF CurTask.kind = "code_generation"
                                THEN "gen_task_content" ELSE "ask_choice"
                     /\ ResetHandler
                     /\ UNCHANGED <<persisted, outcome, LoopLocals>>
                ELSE /\ persisted' = update_project_state(persisted, plan)
                     /\ idx' = idx + 1
                     /\ pc' = "loop"
                     /\ UNCHANGED <<outcome, task_num, task_params, params_from,
                                    OuterLoop, invoked, HandlerLocals, HandlerGhost>>
    /\ UNCHANGED <<plan, ChainAttrs, files, run_cursor, req_prompted, after_reject,
                   starts, tasks_confirmed, completed, done>>

\* ask_choice() of a multiple_choice task, then the cursor's advance and the write
AskChoice ==
    /\ pc = "ask_choice"
    /\ \E source_kind \in {"csv", "hub", None}, leaf \in {"hub_a", None} :
         task_params' = IF source_kind = "hub" THEN leaf ELSE source_kind
    /\ params_from' = idx
    /\ LET plan2 == [plan EXCEPT !.current_task = NextCursor(plan.current_task, idx)]
       IN  /\ plan' = plan2
           /\ persisted' = update_project_state(persisted, plan2)
    /\ completed' = completed + 1
    /\ done' = done \cup {idx}
    /\ idx' = idx + 1
    /\ pc' = "loop"
    /\ UNCHANGED <<ChainAttrs, files, task_num, OuterLoop, HandlerLocals,
                   HandlerGhost, invoked, run_cursor, req_prompted, after_reject,
                   starts, tasks_confirmed, outcome>>

\* gen_task_content(), up to the first handle_streaming()
GenTaskContent ==
    /\ pc = "gen_task_content"
    /\ LET entry == plan.training_entry_file
           source_content == IF Truthy(entry) THEN files[entry] ELSE <<>>
       IN  IF Truthy(entry) /\ source_content = <<>> /\ ~(plan.current_task <= 1)
             THEN /\ result' = NoneOpt
                  /\ pc' = "task_return"
                  /\ UNCHANGED <<chat_history, failing_runs>>
             ELSE /\ chat_history' = chat_history \o
                        <<Msg("system", IF Truthy(entry) THEN "code" ELSE "init", idx),
                          Msg("user", "task", idx)>>
                  /\ failing_runs' \in 0..(CurTask.debug + 1)
                  /\ pc' = "stream"
                  /\ UNCHANGED result
    /\ UNCHANGED <<persisted, plan, user_requirement, training_entry_file, files,
                   LoopLocals, code, attempt, HandlerGhost, RunGhost, outcome>>

\* the handler returns `code`
ReturnCode(text) ==
    /\ result' = Some(text)
    /\ pc' = "task_return"

\* handle_streaming(), as called by gen_task_content(), for a model that answers
\* with one of `streams`
HandleStreamingOf(streams) ==
    /\ pc = "stream"
    /\ \E tokens \in streams :
         LET r == handle_streaming(tokens, <<>>, files[training_entry_file])
         IN  /\ code' = r.text
             /\ files' = [files EXCEPT ![training_entry_file] = r.file]
             /\ stream_stop' = HasStop(tokens)
             /\ stream_wrote' = StopWithCode(tokens)
             /\ IF attempt = -1 /\ ~DebugEnabled(CurTask)
                  THEN ReturnCode(r.text)
                  ELSE pc' = "run" /\ UNCHANGED result
    /\ sessions' = sessions + 1
    /\ UNCHANGED <<persisted, plan, ChainAttrs, LoopLocals, attempt, failing_runs, runs,
                   repairs, RunGhost, outcome>>

HandleStreaming == HandleStreamingOf(Streams)

\* the repair prompt of the debug loop
Repair(a) ==
    /\ attempt' = a
    /\ chat_history' = Append(chat_history, Msg("user", "debug", idx))
    /\ repairs' = repairs + 1
    /\ pc' = "stream"
    /\ UNCHANGED result

\* run_command() of gen_task_content(), and the code up to the next session:
\* exit 0 returns the code (after the first run, or with debug_success in the
\* loop); otherwise the next attempt of range(task.debug), if there is one,
\* appends its prompt, and if there is none the handler returns None
RunCommand ==
    /\ pc = "run"
    /\ LET exit_code == run_command(runs + 1, failing_runs)
       IN  IF ExitOk(exit_code)
             THEN ReturnCode(code) /\ UNCHANGED <<attempt, chat_history, repairs>>
             ELSE IF attempt + 1 < AttemptBudget(CurTask)
                    THEN Repair(attempt + 1)
                    ELSE /\ result' = NoneOpt
                         /\ pc' = "task_return"
                         /\ UNCHANGED <<attempt, chat_history, repairs>>
    /\ runs' = runs + 1
    /\ UNCHANGED <<persisted, plan, user_requirement, training_entry_file, files,
                   LoopLocals, code, failing_runs, sessions, stream_stop,
                   stream_wrote, RunGhost, outcome>>

\* start(), after gen_task_content() returned
TaskReturn ==
    /\ pc = "task_return"
    /\ IF HandlerFailed(result)
         THEN /\ Terminate("task_failed")
              /\ UNCHANGED <<plan, persisted, completed, done>>
         ELSE LET plan2 == [plan EXCEPT
                              !.current_task = NextCursor(plan.current_task, idx)]
              IN  /\ plan' = plan2
                  /\ persisted' = update_project_state(persisted, plan2)
                  /\ completed' = completed + 1
                  /\ done' = done \cup {idx}
                  /\ task_params' = ParamsAfterCodeGen(task_params)
                  /\ params_from' = IF ParamsAfterCodeGen(task_params) = None
                                       THEN 0 ELSE params_from
                  /\ idx' = idx + 1
                  /\ pc' = "loop"
                  /\ UNCHANGED <<outcome, task_num, OuterLoop, HandlerLocals>>
    /\ UNCHANGED <<ChainAttrs, files, HandlerGhost, invoked, run_cursor, req_prompted,
                   after_reject, starts, tasks_confirmed>>

\* the calls that block on the model or on a subprocess
InterruptiblePcs == {"gen_file_name", "planning", "dataset", "plan_gen", "deps",
                     "stream", "run"}

\* an interrupt handler that saves the plan before it returns
InterruptPersisted_saved(old, p) == update_project_state(old, p)

\* `except KeyboardInterrupt`: a notice and `return`, the record as it was
InterruptPersisted(old, p) == old

\* start(), `except KeyboardInterrupt`
Interrupt ==
    /\ pc \in InterruptiblePcs
    /\ persisted' = InterruptPersisted(persisted, plan)
    /\ Terminate("interrupted")
    /\ UNCHANGED <<plan, ChainAttrs, files, HandlerGhost, RunGhost>>

Next ==
    \/ NewChain
    \/ StartCall
    \/ While
    \/ Requirement
    \/ EntryFile
    \/ GenFileName
    \/ FileConfirm
    \/ Planning
    \/ Dataset
    \/ PlanGen
    \/ ConfirmPlan
    \/ CheckDone
    \/ Deps
    \/ Loop
    \/ AskChoice
    \/ GenTaskContent
    \/ HandleStreaming
    \/ RunCommand
    \/ TaskReturn
    \/ Interrupt

Spec == Init /\ [][Next]_vars

\* ------------------------------------- the driver over short debug loops
\* The driver with a planner whose code_generation tasks have no repair round
\* or one, and a model whose stream is empty or is one token of code with the
\* stop marker.
DriverTaskTypes == {[kind |-> "multiple_choice", debug |-> 0]}
                   \cup {[kind |-> "code_generation", debug |-> d] : d \in {0, 1}}

DriverTaskLists == UNION {[1..n -> DriverTaskTypes] : n \in 0..MaxTasks}

DriverStreams == {<<>>, <<[content |-> "c", finish_reason |-> "stop"]>>}

DriverPlanGen == PlanGenFrom(DriverTaskLists)

DriverHandleStreaming == HandleStreamingOf(DriverStreams)

NextDriver ==
    \/ NewChain
    \/ StartCall
    \/ While
    \/ Requirement
    \/ EntryFile
    \/ GenFileName
    \/ FileConfirm
    \/ Planning
    \/ Dataset
    \/ DriverPlanGen
    \/ ConfirmPlan
    \/ CheckDone
    \/ Deps
    \/ Loop
    \/ AskChoice
    \/ GenTaskContent
    \/ DriverHandleStreaming
    \/ RunCommand
    \/ TaskReturn
    \/ Interrupt

SpecDriver == Init /\ [][NextDriver]_vars

\* ---------------------------------------------- the handler of a single task
\* A Chain on a record whose plan, confirmed by an earlier run, is a single
\* code_generation task not yet done; the entry file is empty or holds the code
\* an earlier, unfinished run of the task wrote.
TaskPlan(task) ==
    [requirement |-> "req", dataset |-> "/data/train.csv",
     training_entry_file |-> "main.py", tasks |-> Some(<<task>>), current_task |-> 0]

InitTask ==
    /\ \E d \in 0..MaxDebug :
         /\ persisted = TaskPlan([kind |-> "code_generation", debug |-> d])
         /\ plan = persisted
    /\ user_requirement = "req"
    /\ training_entry_file = "main.py"
    /\ chat_history = <<>>
    /\ files \in [FileNames -> {<<>>, <<"c">>}]
    /\ pc = "idle"
    /\ idx = 0
    /\ task_num = 0
    /\ task_params = None
    /\ code = <<>>
    /\ result = NoneOpt
    /\ attempt = -1
    /\ failing_runs = 0
    /\ sessions = 0
    /\ runs = 0
    /\ repairs = 0
    /\ stream_stop = FALSE
    /\ stream_wrote = FALSE
    /\ invoked = <<>>
    /\ run_cursor = 0
    /\ req_prompted = FALSE
    /\ after_reject = FALSE
    /\ starts = 0
    /\ outcome = "none"
    /\ completed = 0
    /\ done = {}
    /\ params_from = 0
    /\ is_running = FALSE
    /\ bodies = 0
    /\ tasks_confirmed = TRUE

NextTask ==
    \/ NewChain
    \/ StartCall
    \/ While
    \/ Requirement
    \/ EntryFile
    \/ Planning
    \/ CheckDone
    \/ Deps
    \/ Loop
    \/ GenTaskContent
    \/ HandleStreaming
    \/ RunCommand
    \/ TaskReturn
    \/ Interrupt

SpecTask == InitTask /\ [][NextTask]_vars

\* ------------------------------------------------------------------ claims
InHandler == pc \in {"stream", "run", "task_return"}

\* C1: a run that starts with the cursor at k, 0 < k < len(tasks), invokes the
\* handlers of tasks[k], tasks[k+1], ... in that order (loop positions k+1,
\* k+2, ...) and none of tasks[0..k-1].
C1_ResumeAtCursor ==
    (run_cursor > 0 /\ run_cursor < LenTasks(plan))
        => \A i \in 1..Len(invoked) : invoked[i] = run_cursor + i

\* C2: the cursor stays within 0..len(tasks), in memory and in the record.
C2_CursorInBounds ==
    /\ 0 <= plan.current_task /\ plan.current_task <= LenTasks(plan)
    /\ 0 <= persisted.current_task /\ persisted.current_task <= LenTasks(persisted)

\* a resumed run has written the cursor of a finished plan
C2_Witness ==
    /\ pc = "loop"
    /\ run_cursor > 0
    /\ LenTasks(persisted) >= 2
    /\ persisted.current_task = LenTasks(persisted)

\* C3: no step decreases the cursor, in memory or in the record.
C3_CursorMonotone ==
    [][/\ plan'.current_task >= plan.current_task
       /\ persisted'.current_task >= persisted.current_task]_vars

\* a second run on the same record has moved the cursor on and then failed
C3_Witness ==
    /\ pc = "idle"
    /\ outcome = "task_failed"
    /\ run_cursor >= 1
    /\ persisted.current_task > run_cursor

C5_Debug0RunsOnceAndFails ==
    (/\ pc = "task_return"
     /\ CurTask.debug = 0
     /\ sessions >= 1
     /\ failing_runs >= 1)
        => (runs = 1 /\ repairs = 0 /\ result = NoneOpt)

\* C6: the handler of a task with debug = N appends at most N repair prompts and
\* makes at most N+1 validation runs; after N+1 runs that all exited non-zero it
\* returns None.
C6_DebugBudget ==
    InHandler
        => /\ repairs <= CurTask.debug
           /\ runs <= CurTask.debug + 1
           /\ (pc = "task_return" /\ runs = CurTask.debug + 1 /\ failing_runs >= runs)
                => result = NoneOpt

\* a task with debug = 2 has used its budget up: 3 runs, 2 repairs, None
C6_Witness ==
    /\ pc = "task_return"
    /\ CurTask.debug = 2
    /\ runs = 3
    /\ repairs = 2
    /\ result = NoneOpt

\* C7: a task with debug = N >= 1 whose validation runs exit non-zero j <= N
\* times and then 0 returns its code after j+1 runs, j repair prompts and j+1
\* sessions; a session precedes every run.
C7_RepairThenSuccess ==
    (InHandler /\ CurTask.debug >= 1)
        => /\ sessions = runs + (IF pc = "run" THEN 1 ELSE 0)
           /\ (pc = "task_return" /\ sessions >= 1 /\ failing_runs <= CurTask.debug)
                => /\ result # NoneOpt
                   /\ runs = failing_runs + 1
                   /\ repairs = failing_runs
                   /\ sessions = failing_runs + 1

\* debug = 2, exits 1, 1, 0: success after 3 runs and 2 repairs
C7_Witness ==
    /\ pc = "task_return"
    /\ CurTask.debug = 2
    /\ failing_runs = 2
    /\ runs = 3
    /\ repairs = 2
    /\ sessions = 3
    /\ result # NoneOpt

\* C8: a handler whose last session saw no stop marker, or whose text holds no
\* code block, returns None, whatever task.debug is.
C8_StreamEmptyFails ==
    (/\ pc = "task_return"
     /\ sessions >= 1
     /\ (~stream_stop \/ extract_code(code) = NoneOpt))
        => result = NoneOpt

\* C9: a session changes the entry file only if its stream carried a stop
\* marker at which the accumulated text held a code block; without a stop
\* marker, or without a code block in the text, the file keeps its content.
C9_SessionFrame ==
    [][(pc = "stream" /\ pc' \in {"run", "task_return"})
          => /\ files' # files => stream_wrote'
             /\ ~stream_stop' => files' = files
             /\ extract_code(code') = NoneOpt => files' = files]_vars

\* a later session without a stop marker has left the earlier code in place
C9_Witness ==
    /\ pc = "run"
    /\ sessions >= 2
    /\ ~stream_stop
    /\ files[training_entry_file] # <<>>

\* C10: the step that rejects the plan writes nothing, leaves the record without
\* tasks and runs no handler; the first run of a Chain loaded after it passes
\* the requirement without a prompt and enters the planning stage.
C10_RejectedPlanNotPersisted ==
    [][/\ (pc = "confirm_plan" /\ outcome' = "rejected")
            => /\ persisted' = persisted
               /\ persisted'.tasks = NoneOpt
               /\ Truthy(persisted'.requirement)
               /\ invoked' = <<>>
               /\ pc' = "idle"
       /\ (after_reject /\ pc = "requirement")
            => (pc' = "entry_file" /\ ~req_prompted')
       /\ (after_reject /\ pc = "entry_file") => pc' = "planning"
       /\ (after_reject /\ pc = "planning" /\ outcome' # "interrupted")
            => (plan.tasks = NoneOpt /\ pc' = "dataset")]_vars

\* the run after a rejected plan is at the planning stage, no prompt made
C10_Witness ==
    /\ after_reject
    /\ pc = "planning"
    /\ ~req_prompted
    /\ plan.tasks = NoneOpt

\* the points of the task loop where start() waits on the human, on the model or
\* on a subprocess
LoopSuspensionPcs == {"ask_choice", "stream", "run"}

\* C11: whenever the task loop waits on a prompt, on a streamed completion or on
\* a validation run, nothing of the cursor is unwritten and the cursor of the
\* record is the number of tasks of the list whose handler has succeeded.
C11_CursorIsCompletedWork ==
    pc \in LoopSuspensionPcs
        => /\ persisted.current_task = plan.current_task
           /\ persisted.current_task = Cardinality(done)

C13_TasksFixedOnceSet ==
    [][/\ (plan.tasks # NoneOpt /\ pc # "idle") => plan'.tasks = plan.tasks
       /\ persisted.tasks # NoneOpt => persisted'.tasks = persisted.tasks
       /\ (plan'.tasks # plan.tasks /\ pc # "idle")
            => (pc = "plan_gen" /\ plan.tasks = NoneOpt)
       /\ (pc = "planning" /\ pc' = "dataset") => plan.tasks = NoneOpt
       /\ persisted'.tasks # NoneOpt => plan'.tasks = persisted'.tasks]_vars

\* a resumed run has passed the planning stage with the list of the record
C13_Witness ==
    /\ pc = "check_done"
    /\ run_cursor >= 1
    /\ LenTasks(plan) >= 2
    /\ plan.tasks = persisted.tasks

\* C14: when the first session of a code_generation task is submitted, the
\* chat history is that task's system prompt and user prompt and nothing else;
\* at every later session of the handler it holds messages of that task only.
C14_HistoryOfTaskOnly ==
    pc = "stream"
        => /\ \A i \in 1..Len(chat_history) : chat_history[i].task = idx
           /\ sessions = 0
                => /\ Len(chat_history) = 2
                   /\ chat_history[1].role = "system"
                   /\ chat_history[2] = Msg("user", "task", idx)

\* C15: a code_generation handler that has returned, with code or with None,
\* has run at least one session.
C15_SessionBeforeReturn ==
    (pc = "task_return" /\ CurTask.kind = "code_generation") => sessions >= 1

\* C16: a code_generation task is dispatched with the selection of the task
\* right before it in the list when that task is a multiple_choice one, and
\* with None otherwise; task_params is written only by ask_choice(), by the
\* reset after a code_generation task and where start() sets out, and after a
\* code_generation task has returned it is None.
C16_ParamsLookahead ==
    [][/\ pc' = "gen_task_content"
            => IF idx' > 1 /\ plan'.tasks[1][idx' - 1].kind = "multiple_choice"
                 THEN params_from' = idx' - 1
                 ELSE task_params' = None /\ params_from' = 0
       /\ <<task_params, params_from>>' # <<task_params, params_from>>
            => \/ pc = "ask_choice" /\ params_from' = idx
               \/ task_params' = None /\ params_from' = 0
       /\ (pc = "task_return" /\ pc' = "loop") => task_params' = None]_vars

\* a code_generation task that follows two choices is dispatched with the
\* second-level selection made for the second of them
C16_Witness ==
    /\ pc = "gen_task_content"
    /\ idx = 3
    /\ plan.tasks[1][1].kind = "multiple_choice"
    /\ plan.tasks[1][2].kind = "multiple_choice"
    /\ task_params = "hub_a"
    /\ params_from = 2

\* C17: after a run that ended in a rejected plan the record holds the
\* requirement and the dataset the run resolved, and no task list.
C17_RejectedKeepsResolved ==
    (pc = "idle" /\ outcome = "rejected")
        => /\ persisted.requirement = plan.requirement
           /\ persisted.dataset = plan.dataset
           /\ persisted.tasks = NoneOpt

\* C18: the planner is called, and a plan put to the human, only with a dataset
\* that the resolution step has yielded: a value that is neither None nor empty.
C18_PlannerNeedsDataset ==
    pc \in {"plan_gen", "confirm_plan"} => Truthy(plan.dataset)

\* the steps start() takes by itself between its call and its end, for the
\* planner and the model of SpecDriver
DriverStep ==
    \/ While
    \/ Requirement
    \/ EntryFile
    \/ GenFileName
    \/ FileConfirm
    \/ Planning
    \/ Dataset
    \/ DriverPlanGen
    \/ ConfirmPlan
    \/ CheckDone
    \/ Deps
    \/ Loop
    \/ AskChoice
    \/ GenTaskContent
    \/ DriverHandleStreaming
    \/ RunCommand
    \/ TaskReturn

\* a bound on the steps of the loop's turn for one task
TaskCost == 2 * MaxDebug + 8

\* a bound on the steps of the task loop
LoopTop == MaxTasks * TaskCost + 2

\* validation runs the handler in hand can still make
RunsLeft == CurTask.debug + 1 - runs

\* the steps left once the tasks from the loop's position on are done
Base == (LenTasks(plan) - idx) * TaskCost + 2

\* a bound on the steps start() can still take
Rank ==
    CASE pc = "idle" -> 0
      [] pc = "while" -> IF is_running THEN LoopTop + 11 ELSE 1
      [] pc = "requirement" -> LoopTop + 10
      [] pc = "entry_file" -> LoopTop + 9
      [] pc = "gen_file_name" -> LoopTop + 8
      [] pc = "file_confirm" -> LoopTop + 7
      [] pc = "planning" -> LoopTop + 6
      [] pc = "dataset" -> LoopTop + 5
      [] pc = "plan_gen" -> LoopTop + 4
      [] pc = "confirm_plan" -> LoopTop + 3
      [] pc = "check_done" -> LoopTop + 2
      [] pc = "deps" -> LoopTop + 1
      [] pc = "loop" -> IF idx > LenTasks(plan) THEN 2 ELSE Base + TaskCost - 1
      [] pc \in {"gen_task_content", "ask_choice"} -> Base + TaskCost - 2
      [] pc = "stream" -> Base + 2 * RunsLeft + 2
      [] pc = "run" -> Base + 2 * RunsLeft + 1
      [] pc = "task_return" -> Base + 1

\* C19: a call of start() ends: while it runs it has a step to take, and every
\* step it takes or that interrupts it lowers a natural number; the body of
\* `while is_running` is entered at most once per call; a call that ends
\* because the tasks are done, all done at its start or all handled with
\* success, leaves the cursor at len(tasks) in memory and in the record.
C19_StartTerminates ==
    /\ [](pc # "idle" => ENABLED DriverStep)
    /\ [][/\ pc # "idle" => (Rank' < Rank /\ Rank' >= 0)
          /\ bodies' <= 1
          /\ (pc # "idle" /\ pc' = "idle"
                /\ outcome' \in {"finished", "all_completed"})
               => /\ plan'.current_task = LenTasks(plan')
                  /\ persisted'.current_task = LenTasks(plan')]_vars

\* a run resumed in the middle of a list of three has ended with the tasks done
C19_Witness ==
    /\ pc = "idle"
    /\ outcome = "finished"
    /\ run_cursor \in 1..2
    /\ LenTasks(plan) = 3
    /\ plan.current_task = 3
    /\ persisted.current_task = 3

\* C20: a handler is invoked only for a task of a list that was loaded from the
\* record or confirmed at the prompt, whatever start() calls the Chain object
\* has seen before.
C20_HandlersOnConfirmedList ==
    pc \in {"gen_task_content", "ask_choice", "stream", "run", "task_return"}
        => tasks_confirmed

====
